---- MODULE Spec2Model ----
(***************************************************************************)
(* Model of ompl_interface::GoalRegionSampler                              *)
(* (src/ompl_interface/src/modified_planners/goal_region_sampler.cpp).     *)
(*                                                                         *)
(* Lengths are in integer workspace units, angles in hundredths of a       *)
(* radian (the tolerance 0.02 rad is 2).  A configuration is the value of  *)
(* one joint; forward kinematics places the gripper at <<q, 0, 0>>.        *)
(***************************************************************************)
EXTENDS Integers, Sequences, FiniteSets, TLC

VARIABLES
  workspace_goal_regions_,  \* the regions, in construction order
  stateProperty_,           \* roadmap: vertex (iteration order) -> configuration
  roadmap_edges,            \* roadmap: set of undirected edges {v, w}
  solution_path,            \* the host's solution path (sequence of configurations)
  pre_path,                 \* solution_path at entry of the last getBetterSolution
  roadmap_internal_path,    \* internal path of the last call (<<>> is nullptr)
  start_vertex,             \* start_vertex of the last call (0: not found)
  improve_calls,            \* number of getBetterSolution calls made
  graph,                    \* vertices of the roadmap copy of the last call (line 220)
  vertex_scan,              \* what the vertex scan of the running call found
  refine_pc,                \* position of the host in a call run beside roadmap growth
  constrs_,                 \* per region: the pose constraint handed to the projector
  abs_overload,             \* the overload the build resolves abs(double) to
  ee_pose,                  \* gripper pose of the state distanceGoal is asked about
  distance_result,          \* what distanceGoal returned (NoResult before the call)
  lock_,                    \* holder of the mutex lock_ ("none" when free)
  sampling_,                \* isSampling()
  has_solution,             \* getOMPLProblemDefinition()->hasSolution()
  goals_priority_queue_,    \* the weighted goals held by the heap
  states_,                  \* getStateCount(): goal states registered with the base class
  samplingAttempts_,        \* samplingAttemptsCount()
  queue_writers,            \* operations that are in the middle of changing the queue
  se3_spaces_,              \* number of entries of se3_spaces_
  se3_samplers_,            \* number of entries of se3_samplers_
  kinematic_constraint_set_,\* constraints held by the constraint set
  constraint_sampler_,      \* "sampler", or "null" when selectSampler found none
  default_sampler_,         \* "null": the constructor never assigns it
  work_state_,              \* configuration of work_state_
  invalid_sampled_constraints_,
  warned_invalid_samples_,
  verbose_display_,
  gen_pc,                   \* position of the sampling thread
  region_i,                 \* i: region index of the running call (1-based)
  attempt_a,                \* a: attempt index of the running region
  attempts_so_far,
  success,
  sampled_states,           \* output list of the running call
  new_goal,                 \* candidate being inserted
  gen_calls,                \* calls of sampleUsingConstraintSampler started
  projections,              \* attempts made for the running region of the running call
  inserted,                 \* candidates the running call handed to the heap, in order
  last_attempt,             \* what the checks of the last attempt answered
  diagnostics,              \* the moments the invalid-sample warning was raised
  returned,                 \* what the running call returned (FALSE before its return)
  host_pc,                  \* position of the host thread
  host_arg,                 \* argument of the host's running addState
  host_calls,               \* addState and clear calls the host has started
  faults,                   \* undefined behaviour met so far
  crashed                   \* the process has died

refineVars == <<stateProperty_, roadmap_edges, solution_path, pre_path,
                roadmap_internal_path, start_vertex, improve_calls, graph, vertex_scan,
                refine_pc>>

distVars == <<abs_overload, ee_pose, distance_result>>

queueVars == <<goals_priority_queue_, states_, queue_writers>>

regionVars == <<se3_spaces_, se3_samplers_>>

samplerVars == <<kinematic_constraint_set_, constraint_sampler_, default_sampler_, work_state_,
                 invalid_sampled_constraints_, warned_invalid_samples_, verbose_display_>>

genVars == <<gen_pc, region_i, attempt_a, attempts_so_far, success, sampled_states, new_goal,
             gen_calls, projections, inserted, last_attempt, diagnostics, returned>>

hostVars == <<host_pc, host_arg, host_calls>>

flagVars == <<lock_, sampling_, has_solution, samplingAttempts_>>

faultVars == <<faults, crashed>>

engineVars == <<queueVars, regionVars, samplerVars, genVars, hostVars, flagVars, faultVars>>

vars == <<workspace_goal_regions_, constrs_, refineVars, distVars, engineVars>>

----------------------------------------------------------------------------
(* Bounds of the model *)

MaxVertices == 3
MaxPathLen == 2
MaxImproveCalls == 2
MaxRegions == 2

(* numeric_limits<double>::infinity() *)
Infinity == 1000000

----------------------------------------------------------------------------
(* Regions *)

Axis(lo, hi) == [min |-> lo, max |-> hi]
Angle(free) == [free_value |-> free]

Region(x, y, z, rf, pf, yf) ==
  [x |-> x, y |-> y, z |-> z, roll |-> Angle(rf), pitch |-> Angle(pf), yaw |-> Angle(yf)]

Min2(a, b) == IF a < b THEN a ELSE b
Abs(a) == IF a < 0 THEN -a ELSE a

----------------------------------------------------------------------------
(* Roadmap refinement: getBetterSolution *)

JointValues == {1, 3, 5, 7}

(* kinematic_state_->getGlobalLinkTransform("gripper_link").translation() *)
EndEffectorPosition(q) == <<q, 0, 0>>

(* gr_distance of lines 256-262, as 4 * gr_distance^2: the square root and  *)
(* the halving of the centroid are monotone, so the order of the scores is  *)
(* the order of these integers.                                             *)
GrDistance(r, p) ==
    (r.x.max + r.x.min - 2 * p[1]) * (r.x.max + r.x.min - 2 * p[1])
  + (r.y.max + r.y.min - 2 * p[2]) * (r.y.max + r.y.min - 2 * p[2])
  + (r.z.max + r.z.min - 2 * p[3]) * (r.z.max + r.z.min - 2 * p[3])

RECURSIVE MinGrDistance(_, _, _)
MinGrDistance(regions, p, i) ==
  IF i > Len(regions) THEN Infinity
  ELSE Min2(GrDistance(regions[i], p), MinGrDistance(regions, p, i + 1))

(* distance of a roadmap vertex, lines 253-266 *)
VertexDistance(v) ==
  MinGrDistance(workspace_goal_regions_, EndEffectorPosition(stateProperty_[v]), 1)

Vertices == 1..Len(stateProperty_)

(* si_->getStateSpace()->equalStates *)
equalStates(a, b) == a = b

(* The scan of lines 233-282: vertices are visited in iteration order, each *)
(* is pushed on lst, and the scan breaks at the first vertex whose state    *)
(* equals the path's terminal state.                                        *)
Matches(st) == {v \in Vertices : equalStates(st, stateProperty_[v])}

FirstMatch(st) == CHOOSE v \in Matches(st) : \A w \in Matches(st) : v <= w

(* Variant: with no matching vertex the scan reports the last vertex it    *)
(* visited as the start vertex.                                             *)
ScanVerticesLastIsStart(path) ==
  LET st == path[Len(path)]
      found == Matches(st) # {}
      sv == IF found THEN FirstMatch(st) ELSE Len(stateProperty_)
  IN [start_vertex_found |-> TRUE,
      start_vertex |-> sv,
      lst |-> [k \in 1..sv |-> <<VertexDistance(k), k>>]]

ScanVertices(path) ==
  LET st == path[Len(path)]
      found == Matches(st) # {}
      sv == IF found THEN FirstMatch(st) ELSE 0
      last == IF found THEN sv ELSE Len(stateProperty_)
  IN [start_vertex_found |-> found,
      start_vertex |-> sv,
      lst |-> [k \in 1..last |-> <<VertexDistance(k), k>>]]

(* Variant: the list sorted from the highest distance down.                 *)
TupleLessDescending(a, b) == a[1] > b[1] \/ (a[1] = b[1] /\ a[2] > b[2])

(* std::list<std::tuple<double, Vertex>>::sort, line 286 *)
TupleLess(a, b) == a[1] < b[1] \/ (a[1] = b[1] /\ a[2] < b[2])

RECURSIVE SortSet(_)
SortSet(S) ==
  IF S = {} THEN <<>>
  ELSE LET m == CHOOSE a \in S : \A b \in S \ {a} : TupleLess(a, b)
       IN <<m>> \o SortSet(S \ {m})

SortLst(lst) == SortSet({lst[k] : k \in 1..Len(lst)})

(* PRMMod::sameComponent: the union-find over the roadmap's edges *)
RECURSIVE Reach(_, _)
Reach(S, n) ==
  IF n = 0 THEN S
  ELSE Reach(S \cup {w \in Vertices : \E v \in S : {v, w} \in roadmap_edges}, n - 1)

sameComponent(v1, v2) == v2 \in Reach({v1}, Len(stateProperty_))

(* PRMMod::constructSolution: the cheapest internal paths from v1 to v2,    *)
(* as sequences of vertices; the cost of an edge is the distance of its     *)
(* end configurations.                                                      *)
VertexPaths(v1, v2) ==
  {p \in UNION {[1..k -> Vertices] : k \in 1..Len(stateProperty_)} :
     /\ p[1] = v1
     /\ p[Len(p)] = v2
     /\ \A a, b \in 1..Len(p) : a # b => p[a] # p[b]
     /\ \A a \in 1..(Len(p) - 1) : {p[a], p[a + 1]} \in roadmap_edges}

RECURSIVE PathCost(_, _)
PathCost(p, a) ==
  IF a >= Len(p) THEN 0
  ELSE Abs(stateProperty_[p[a]] - stateProperty_[p[a + 1]]) + PathCost(p, a + 1)

constructSolution(v1, v2) ==
  LET all == VertexPaths(v1, v2)
      best == {p \in all : \A o \in all : PathCost(p, 1) <= PathCost(o, 1)}
  IN {[k \in 1..Len(p) |-> stateProperty_[p[k]]] : p \in best}

(* The walk over the sorted list, lines 289-309: the first element in the   *)
(* start vertex's component ends the walk.                                  *)
RECURSIVE FirstSameComponent(_, _, _)
FirstSameComponent(sorted, sv, k) ==
  IF k > Len(sorted) THEN 0
  ELSE IF sameComponent(sv, sorted[k][2]) THEN sorted[k][2]
  ELSE FirstSameComponent(sorted, sv, k + 1)

(* The values roadmap_internal_path can have at line 311; <<>> is nullptr.  *)
InternalPaths(scan) ==
  IF ~scan.start_vertex_found THEN {<<>>}
  ELSE LET g == FirstSameComponent(SortLst(scan.lst), scan.start_vertex, 1)
       IN IF g = 0 \/ equalStates(stateProperty_[scan.start_vertex], stateProperty_[g])
          THEN {<<>>}
          ELSE constructSolution(scan.start_vertex, g)

(* The concatenation loop of lines 316-321: states 1 .. count-1 (0-based)   *)
RECURSIVE AppendFrom(_, _, _)
AppendFrom(path, ip, i) ==
  IF i > Len(ip) THEN path ELSE AppendFrom(Append(path, ip[i]), ip, i + 1)

(* Variant: the loop starts at state 0 of the internal path.                *)
ConcatenateFromFirst(path, ip) == AppendFrom(path, ip, 1)

Concatenate(path, ip) == AppendFrom(path, ip, 2)

getBetterSolution ==
  /\ improve_calls < MaxImproveCalls
  /\ LET scan == ScanVertices(solution_path)
     IN \E ip \in InternalPaths(scan) :
          /\ solution_path' = Concatenate(solution_path, ip)
          /\ roadmap_internal_path' = ip
          /\ start_vertex' = scan.start_vertex
  /\ pre_path' = solution_path
  /\ improve_calls' = improve_calls + 1
  /\ UNCHANGED <<workspace_goal_regions_, stateProperty_, roadmap_edges, graph,
                 vertex_scan, refine_pc>>
  /\ UNCHANGED <<constrs_, distVars, engineVars>>

(* --- getBetterSolution beside the thread that grows the roadmap --- *)

MaxGrowth == 1

NoScan == [start_vertex_found |-> FALSE, start_vertex |-> 0, lst |-> <<>>]

(* lines 220-282: graph is a copy of the roadmap (auto graph = getRoadmap()) *)
(* and the scan visits the vertices of the copy                              *)
BetterSolutionScan ==
  /\ refine_pc = "idle"
  /\ improve_calls < MaxImproveCalls
  /\ graph' = Len(stateProperty_)
  /\ vertex_scan' = ScanVertices(solution_path)
  /\ pre_path' = solution_path
  /\ refine_pc' = "scanned"
  /\ UNCHANGED <<workspace_goal_regions_, stateProperty_, roadmap_edges, solution_path,
                 roadmap_internal_path, start_vertex, improve_calls>>
  /\ UNCHANGED <<constrs_, distVars, engineVars>>

(* lines 284-323: sameComponent and constructSolution are asked of the      *)
(* planner, whose roadmap is the one being grown, not of the copy           *)
BetterSolutionSplice ==
  /\ refine_pc = "scanned"
  /\ \E ip \in InternalPaths(vertex_scan) :
       /\ solution_path' = Concatenate(solution_path, ip)
       /\ roadmap_internal_path' = ip
  /\ start_vertex' = vertex_scan.start_vertex
  /\ improve_calls' = improve_calls + 1
  /\ vertex_scan' = NoScan
  /\ refine_pc' = "idle"
  /\ UNCHANGED <<workspace_goal_regions_, stateProperty_, roadmap_edges, pre_path, graph>>
  /\ UNCHANGED <<constrs_, distVars, engineVars>>

(* the growth thread adds a milestone and connects it to some neighbours *)
GrowRoadmap ==
  /\ Len(stateProperty_) < MaxVertices + MaxGrowth
  /\ \E c \in JointValues, nbrs \in SUBSET Vertices :
       /\ stateProperty_' = Append(stateProperty_, c)
       /\ roadmap_edges' = roadmap_edges \cup {{v, Len(stateProperty_) + 1} : v \in nbrs}
  /\ UNCHANGED <<workspace_goal_regions_, solution_path, pre_path, roadmap_internal_path,
                 start_vertex, improve_calls, graph, vertex_scan,
                refine_pc>>
  /\ UNCHANGED <<constrs_, distVars, engineVars>>

----------------------------------------------------------------------------
(* Orientations.  A quaternion is named by roll, pitch and yaw angles that  *)
(* compose it (tf::createQuaternionFromRPY); tf::Matrix3x3::getRPY returns  *)
(* the angles of the same rotation with pitch in [-pi/2, pi/2] and roll and *)
(* yaw in (-pi, pi].                                                        *)

Pi == 314
HalfPi == 157

WrapPi(a) == ((a + Pi - 1) % (2 * Pi)) - (Pi - 1)

createQuaternionFromRPY(r, p, y) == [r |-> r, p |-> p, y |-> y]

(* At pitch = +-pi/2 (the singularity of getEulerYPR) roll and yaw are not  *)
(* separate angles of the rotation: yaw is returned as 0 and roll as        *)
(* atan2 of the two vanishing entries of the matrix's last row, 0.          *)
getRPY(q) ==
  LET p == WrapPi(q.p)
  IN IF p = HalfPi \/ p = -HalfPi THEN <<0, p, 0>>
     ELSE IF p > HalfPi THEN <<WrapPi(q.r + Pi), Pi - p, WrapPi(q.y + Pi)>>
     ELSE IF p < -HalfPi THEN <<WrapPi(q.r + Pi), -Pi - p, WrapPi(q.y + Pi)>>
     ELSE <<WrapPi(q.r), p, WrapPi(q.y)>>

----------------------------------------------------------------------------
(* distanceGoal *)

(* The tolerance of lines 186-190, 0.02 rad *)
OrientationTolerance == 2
Radian == 100

(* abs(constr - pose) of lines 186-190.  abs is called unqualified on a     *)
(* double: a build whose headers declare only int abs(int) at global scope  *)
(* converts the argument to int (truncation toward zero, in radians); a     *)
(* build whose headers also declare abs(double) keeps the value.            *)
abs(d) ==
  IF abs_overload = "int" THEN (Abs(d) \div Radian) * Radian ELSE Abs(d)

(* The box test of lines 155-158 *)
InBoxXY(r, t) ==
  /\ t[1] >= r.x.min
  /\ t[1] <= r.x.max
  /\ t[2] >= r.y.min
  /\ t[2] <= r.y.max

(* lines 160-161 *)
AllFree(r) == r.roll.free_value /\ r.pitch.free_value /\ r.yaw.free_value

(* meet_orientation_const of lines 167-191 *)
meet_orientation_const(r, c, pose) ==
  LET constr == getRPY(c.orientation)
      pose_rpy == getRPY(pose.rotation)
  IN /\ ~(~r.roll.free_value /\ abs(constr[1] - pose_rpy[1]) > OrientationTolerance)
     /\ ~(~r.pitch.free_value /\ abs(constr[2] - pose_rpy[2]) > OrientationTolerance)
     /\ ~(~r.yaw.free_value /\ abs(constr[3] - pose_rpy[3]) > OrientationTolerance)

(* Variant: the loop ends at the first region whose box holds the pose.     *)
RECURSIVE InsideRegionFirstBoxOnly(_, _, _, _)
InsideRegionFirstBoxOnly(regions, constrs, pose, i) ==
  IF i > Len(regions) THEN 0
  ELSE IF InBoxXY(regions[i], pose.translation)
       THEN IF AllFree(regions[i]) \/ meet_orientation_const(regions[i], constrs[i], pose)
            THEN i ELSE 0
  ELSE InsideRegionFirstBoxOnly(regions, constrs, pose, i + 1)

(* The loop of lines 153-199: the index of the region that makes            *)
(* distanceGoal return 0.0, or 0 when the loop ends without a return.       *)
RECURSIVE InsideRegion(_, _, _, _)
InsideRegion(regions, constrs, pose, i) ==
  IF i > Len(regions) THEN 0
  ELSE IF InBoxXY(regions[i], pose.translation)
          /\ (AllFree(regions[i]) \/ meet_orientation_const(regions[i], constrs[i], pose))
       THEN i
  ELSE InsideRegion(regions, constrs, pose, i + 1)

(* what the checks of one attempt answered: the sampler used, and whether   *)
(* decide (lines 459, 494) and the validity check (lines 461, 491) passed   *)
AttemptChecks(sampler, decide, valid) ==
  [sampler |-> sampler, decide |-> decide, valid |-> valid]

NoAttempt == AttemptChecks("none", FALSE, FALSE)

(* the sampler outside a run of the sampling engine *)
EngineIdle ==
  /\ lock_ = "none"
  /\ sampling_ = FALSE
  /\ has_solution = FALSE
  /\ goals_priority_queue_ = {}
  /\ states_ = 0
  /\ samplingAttempts_ = 0
  /\ queue_writers = {}
  /\ se3_spaces_ = 0
  /\ se3_samplers_ = 0
  /\ kinematic_constraint_set_ = <<>>
  /\ constraint_sampler_ = "null"
  /\ default_sampler_ = "null"
  /\ work_state_ = 0
  /\ invalid_sampled_constraints_ = 0
  /\ warned_invalid_samples_ = FALSE
  /\ verbose_display_ = 0
  /\ gen_pc = "stopped"
  /\ region_i = 0
  /\ attempt_a = 0
  /\ attempts_so_far = 0
  /\ success = FALSE
  /\ sampled_states = <<>>
  /\ new_goal = 0
  /\ gen_calls = 0
  /\ projections = 0
  /\ inserted = <<>>
  /\ last_attempt = NoAttempt
  /\ diagnostics = <<>>
  /\ returned = FALSE
  /\ host_pc = "idle"
  /\ host_arg = 0
  /\ host_calls = 0
  /\ faults = {}
  /\ crashed = FALSE

(* WeightedGoalRegionSampler::distanceGoal, the heuristic of line 201 *)
FallbackDistances == {1, Infinity}

NoResult == [value |-> -1, region |-> 0, via |-> "none"]

(* the region whose constraint sampleUsingConstraintSampler is rewriting:  *)
(* its position is written (lines 362-367), its orientation not yet         *)
(* (lines 396-399)                                                          *)
ConstraintBeingWritten == IF gen_pc = "orientation" THEN {region_i} ELSE {}

(* the regions whose constraint the loop of lines 153-199 reads (lines      *)
(* 168-170) when it returns at region i (0: it runs to its end)             *)
ConstraintsRead(regions, pose, i) ==
  {k \in 1..(IF i = 0 THEN Len(regions) ELSE i) :
     InBoxXY(regions[k], pose.translation) /\ ~AllFree(regions[k])}

(* what distanceGoal returns when the loop returns at region i *)
DistanceResults(i) ==
  IF i # 0
  THEN {[value |-> 0, region |-> i, via |-> "inside"]}
  ELSE {[value |-> d, region |-> 0, via |-> "fallback"] : d \in FallbackDistances}

(* distanceGoal takes no lock.  Reading the orientation of a constraint     *)
(* that the sampling thread is rewriting is a data race: the value read is  *)
(* any value, the orientation check of that region goes either way.         *)
distanceGoal ==
  /\ ~crashed
  /\ distance_result = NoResult
  /\ ee_pose # <<>>
  /\ LET i == InsideRegion(workspace_goal_regions_, constrs_, ee_pose, 1)
         raced == ConstraintsRead(workspace_goal_regions_, ee_pose, i)
                    \cap ConstraintBeingWritten
     IN IF raced = {}
        THEN /\ distance_result' \in DistanceResults(i)
             /\ UNCHANGED faults
        ELSE /\ \E k \in raced :
                  distance_result' \in
                    DistanceResults(k) \cup
                    DistanceResults(InsideRegion(workspace_goal_regions_, constrs_,
                                                 ee_pose, k + 1))
             /\ faults' = faults \cup {"constraint_race"}
  /\ UNCHANGED <<workspace_goal_regions_, constrs_, refineVars, abs_overload, ee_pose>>
  /\ UNCHANGED <<queueVars, regionVars, samplerVars, genVars, hostVars, flagVars, crashed>>

DistIdle ==
  /\ abs_overload = "double"
  /\ ee_pose = <<>>
  /\ distance_result = NoResult

RefineIdle ==
  /\ stateProperty_ = <<>>
  /\ roadmap_edges = {}
  /\ solution_path = <<>>
  /\ pre_path = <<>>
  /\ roadmap_internal_path = <<>>
  /\ start_vertex = 0
  /\ improve_calls = 0
  /\ graph = 0
  /\ vertex_scan = NoScan
  /\ refine_pc = "idle"

BoxA == <<Axis(0, 2), Axis(0, 2), Axis(0, 2)>>
BoxB == <<Axis(4, 6), Axis(0, 2), Axis(0, 2)>>

FreeFlags ==
  {<<TRUE, TRUE, TRUE>>, <<FALSE, TRUE, TRUE>>, <<TRUE, TRUE, FALSE>>, <<FALSE, FALSE, FALSE>>}

DistRegions ==
  {Region(b[1], b[2], b[3], f[1], f[2], f[3]) : b \in {BoxA, BoxB}, f \in FreeFlags}

ConstraintOrientations ==
  {createQuaternionFromRPY(0, 0, 0), createQuaternionFromRPY(50, 0, 0)}

PoseConstraint(pos, q) == [position |-> pos, orientation |-> q]

DistConstraints == {PoseConstraint(<<1, 1, 1>>, q) : q \in ConstraintOrientations}

PoseTranslations == {<<x, y, z>> : x \in {1, 3, 5}, y \in {1, 3}, z \in {1, 3}}

PoseRotations ==
  {createQuaternionFromRPY(r, 0, y) : r \in {0, 2, 3, 50, 150}, y \in {0, 50}}

InitDist ==
  /\ \E n \in 1..MaxRegions :
       /\ workspace_goal_regions_ \in [1..n -> DistRegions]
       /\ constrs_ \in [1..n -> DistConstraints]
  /\ abs_overload \in {"int", "double"}
  /\ ee_pose \in [translation : PoseTranslations, rotation : PoseRotations]
  /\ distance_result = NoResult
  /\ RefineIdle
  /\ EngineIdle

NextDist == distanceGoal

SpecDist == InitDist /\ [][NextDist]_vars

----------------------------------------------------------------------------
(* Regions of the refinement scenarios: centroid at the origin, and a       *)
(* second region with its centroid at x = 8.                                *)
RegionNear == Region(Axis(-1, 1), Axis(-1, 1), Axis(-1, 1), TRUE, TRUE, TRUE)
RegionFar == Region(Axis(7, 9), Axis(-1, 1), Axis(-1, 1), TRUE, TRUE, TRUE)

PathPrefixValues == {1, 7}

InitialPaths ==
  {p \in UNION {[1..k -> JointValues] : k \in 1..MaxPathLen} :
     \A a \in 1..(Len(p) - 1) : p[a] \in PathPrefixValues}

AllEdges == {{v, w} : v, w \in 1..MaxVertices} \ {{v} : v \in 1..MaxVertices}

InitRefine ==
  /\ workspace_goal_regions_ \in {<<RegionNear>>, <<RegionNear, RegionFar>>}
  /\ stateProperty_ \in [1..MaxVertices -> JointValues \ {7}]
  /\ roadmap_edges \in SUBSET AllEdges
  /\ solution_path \in InitialPaths
  /\ pre_path = <<>>
  /\ roadmap_internal_path = <<>>
  /\ start_vertex = 0
  /\ improve_calls = 0
  /\ graph = 0
  /\ vertex_scan = NoScan
  /\ refine_pc = "idle"
  /\ constrs_ = <<>>
  /\ DistIdle
  /\ EngineIdle

NextRefine == getBetterSolution

SpecRefine == InitRefine /\ [][NextRefine]_vars

(* two calls on a roadmap that has grown to its full size and is no longer  *)
(* changed                                                                  *)
GrownEdges ==
  {{v, w} : v, w \in 1..(MaxVertices + MaxGrowth)}
    \ {{v} : v \in 1..(MaxVertices + MaxGrowth)}

InitGrown ==
  /\ workspace_goal_regions_ \in {<<RegionNear>>, <<RegionNear, RegionFar>>}
  /\ stateProperty_ \in [1..(MaxVertices + MaxGrowth) -> JointValues \ {7}]
  /\ roadmap_edges \in SUBSET GrownEdges
  /\ solution_path \in InitialPaths
  /\ pre_path = <<>>
  /\ roadmap_internal_path = <<>>
  /\ start_vertex = 0
  /\ improve_calls = 0
  /\ graph = 0
  /\ vertex_scan = NoScan
  /\ refine_pc = "idle"
  /\ constrs_ = <<>>
  /\ DistIdle
  /\ EngineIdle

NextGrown == getBetterSolution

SpecGrown == InitGrown /\ [][NextGrown]_vars

(* the refinement while the roadmap grows *)
InitGrow ==
  /\ InitRefine
  /\ workspace_goal_regions_ = <<RegionNear>>

NextGrow ==
  \/ BetterSolutionScan
  \/ BetterSolutionSplice
  \/ GrowRoadmap

SpecGrow == InitGrow /\ [][NextGrow]_vars

----------------------------------------------------------------------------
(* The sampling engine: sampleUsingConstraintSampler on the sampling thread *)
(* and addState and clear on the host thread.                               *)

MaxGenerateCalls == 2
MaxRegionVisits == 2
MaxHostCalls == 2

(* unsigned int max_attempts = 2, line 413 *)
max_attempts == 2
max_attempts_div2 == max_attempts \div 2

(* Every projection and every draw of a sampler gives a configuration of   *)
(* its own, named by the region and the attempt that made it; the          *)
(* host adds configurations of its own.                                     *)
SampledConfig == region_i * 10 + attempt_a + 1
HostConfig == 1000 + host_calls

Running == ~crashed

WeightedGoal(st) == [state_ |-> st, weight_ |-> 1]

(* heap insertion of lines 212, 470 and 502.  An insertion that overlaps    *)
(* another change of the queue is a data race: the element is stored or     *)
(* lost.                                                                    *)
InsertResults(queue, st, others) ==
  IF others = {} THEN {queue \cup {WeightedGoal(st)}}
  ELSE {queue \cup {WeightedGoal(st)}, queue}

RaceFaults(others) == IF others = {} THEN {} ELSE {"queue_race"}

(* --- the thread that runs the sampler function (base class) --- *)

EngineCall ==
  /\ Running
  /\ gen_pc = "idle"
  /\ sampling_
  /\ gen_calls < MaxGenerateCalls
  /\ (gen_calls + 1) * Len(workspace_goal_regions_) <= MaxRegionVisits
  /\ gen_calls' = gen_calls + 1
  /\ samplingAttempts_' = samplingAttempts_ + 1
  /\ gen_pc' = "loop"
  /\ region_i' = 1
  /\ attempt_a' = 0
  /\ success' = FALSE
  /\ sampled_states' = <<>>
  /\ UNCHANGED <<attempts_so_far, new_goal, projections, inserted, last_attempt,
                 diagnostics, returned>>
  /\ UNCHANGED <<workspace_goal_regions_, constrs_, refineVars, distVars, queueVars,
                 regionVars, samplerVars, hostVars, lock_, sampling_, has_solution, faultVars>>

EngineStop ==
  /\ Running
  /\ gen_pc = "idle"
  /\ ~sampling_
  /\ gen_pc' = "stopped"
  /\ UNCHANGED <<region_i, attempt_a, attempts_so_far, success, sampled_states, new_goal,
                 gen_calls, projections, inserted, last_attempt, diagnostics, returned>>
  /\ UNCHANGED <<workspace_goal_regions_, constrs_, refineVars, distVars, queueVars,
                 regionVars, samplerVars, hostVars, flagVars, faultVars>>

(* the states the call put on its output list are registered under lock_;  *)
(* the locals of the call are gone                                          *)
EngineCollect ==
  /\ Running
  /\ gen_pc = "return"
  /\ lock_ = "none"
  /\ states_' = states_ + Len(sampled_states)
  /\ gen_pc' = "idle"
  /\ region_i' = 0
  /\ attempt_a' = 0
  /\ attempts_so_far' = 0
  /\ success' = FALSE
  /\ sampled_states' = <<>>
  /\ new_goal' = 0
  /\ projections' = 0
  /\ inserted' = <<>>
  /\ last_attempt' = NoAttempt
  /\ returned' = FALSE
  /\ UNCHANGED <<gen_calls, diagnostics>>
  /\ UNCHANGED <<workspace_goal_regions_, constrs_, refineVars, distVars,
                 goals_priority_queue_, queue_writers, regionVars, samplerVars, hostVars,
                 flagVars, faultVars>>

(* --- sampleUsingConstraintSampler --- *)

(* Variant: the call reports whether the queue holds a candidate.           *)
ReturnsQueueNonEmpty == goals_priority_queue_ # {}

(* the value returned by lines 511-514 *)
ReturnValue == success

(* the loop test of line 350 and the return of lines 511-514 *)
GenLoop ==
  /\ Running
  /\ gen_pc = "loop"
  /\ IF region_i <= Len(workspace_goal_regions_)
     THEN gen_pc' = "sample" /\ UNCHANGED returned
     ELSE gen_pc' = "return" /\ returned' = ReturnValue
  /\ UNCHANGED <<region_i, attempt_a, attempts_so_far, success, sampled_states, new_goal,
                 gen_calls, projections, inserted, last_attempt, diagnostics>>
  /\ UNCHANGED <<workspace_goal_regions_, constrs_, refineVars, distVars, queueVars,
                 regionVars, samplerVars, hostVars, flagVars, faultVars>>

(* se3_samplers_[i]->sampleUniform: the poses a region's sampler can give.  *)
(* The second rotation has its pitch on the singularity of getRPY.          *)
SampledPositions(r) == {<<r.x.max, r.y.max, r.z.max>>}
SampledRotations ==
  {createQuaternionFromRPY(0, 0, 0), createQuaternionFromRPY(50, HalfPi, 20)}

(* the orientation written by lines 369-400 *)
NewOrientation(r, c, q_sampled) ==
  IF r.roll.free_value \/ r.pitch.free_value \/ r.yaw.free_value
  THEN LET sampled == getRPY(q_sampled)
           initial == getRPY(c.orientation)
       IN createQuaternionFromRPY(IF r.roll.free_value THEN sampled[1] ELSE initial[1],
                                  IF r.pitch.free_value THEN sampled[2] ELSE initial[2],
                                  IF r.yaw.free_value THEN sampled[3] ELSE initial[3])
  ELSE c.orientation

(* constraint_sampler_manager_->selectSampler *)
SelectSamplerResults == {"sampler", "null"}

(* region i is still an element of every per-region vector *)
InRange(k) ==
  /\ k <= Len(workspace_goal_regions_)
  /\ k <= Len(constrs_)
  /\ k <= se3_spaces_
  /\ k <= se3_samplers_

(* lines 354-367: sample a pose and write its position into constrs_[i];   *)
(* the orientation of constrs_[i] is still the one of the last iteration.   *)
(* Indexing a vector that clear() has emptied is undefined: the process     *)
(* dies, or the call goes on with what the freed storage holds.             *)
GenSample ==
  /\ Running
  /\ gen_pc = "sample"
  /\ IF InRange(region_i)
     THEN \E pos \in SampledPositions(workspace_goal_regions_[region_i]) :
            /\ constrs_' = [constrs_ EXCEPT ![region_i].position = pos]
            /\ gen_pc' = "orientation"
            /\ UNCHANGED faultVars
     ELSE /\ faults' = faults \cup {"out_of_range"}
          /\ \/ /\ crashed' = TRUE
                /\ UNCHANGED gen_pc
             \/ /\ crashed' = FALSE
                /\ gen_pc' = "orientation"
          /\ UNCHANGED constrs_
  /\ kinematic_constraint_set_' = <<>>
  /\ UNCHANGED <<region_i, attempt_a, attempts_so_far, success, sampled_states, new_goal,
                 gen_calls, projections, inserted, last_attempt, diagnostics, returned>>
  /\ UNCHANGED <<constraint_sampler_, default_sampler_, work_state_,
                 invalid_sampled_constraints_, warned_invalid_samples_, verbose_display_>>
  /\ UNCHANGED <<workspace_goal_regions_, refineVars, distVars, queueVars, regionVars,
                 hostVars, flagVars>>

(* lines 369-414: write the orientation of constrs_[i], hand the constraint *)
(* to the constraint set, select the sampler, read the attempts count       *)
GenOrientation ==
  /\ Running
  /\ gen_pc = "orientation"
  /\ IF InRange(region_i)
     THEN \E q \in SampledRotations, cs \in SelectSamplerResults :
            LET c == [constrs_[region_i] EXCEPT
                        !.orientation = NewOrientation(workspace_goal_regions_[region_i],
                                                       constrs_[region_i], q)]
            IN /\ constrs_' = [constrs_ EXCEPT ![region_i] = c]
               /\ kinematic_constraint_set_' = <<c>>
               /\ constraint_sampler_' = cs
               /\ gen_pc' = "solution_check"
               /\ UNCHANGED faultVars
     ELSE /\ faults' = faults \cup {"out_of_range"}
          /\ \/ /\ crashed' = TRUE
                /\ UNCHANGED <<gen_pc, constraint_sampler_>>
             \/ /\ crashed' = FALSE
                /\ gen_pc' = "solution_check"
                /\ constraint_sampler_' \in SelectSamplerResults
          /\ UNCHANGED <<constrs_, kinematic_constraint_set_>>
  /\ attempts_so_far' = samplingAttempts_
  /\ UNCHANGED <<region_i, attempt_a, success, sampled_states, new_goal, gen_calls,
                 projections, inserted, last_attempt, diagnostics, returned>>
  /\ UNCHANGED <<default_sampler_, work_state_, invalid_sampled_constraints_,
                 warned_invalid_samples_, verbose_display_>>
  /\ UNCHANGED <<workspace_goal_regions_, refineVars, distVars, queueVars, regionVars,
                 hostVars, flagVars>>

(* Variant: the region is sampled although the host holds a solution.       *)
SkipRegionNever == FALSE

(* the early exit of lines 426-428 *)
SkipRegion == has_solution

(* lines 427-431 *)
GenSolutionCheck ==
  /\ Running
  /\ gen_pc = "solution_check"
  /\ IF SkipRegion
     THEN /\ region_i' = region_i + 1
          /\ gen_pc' = "loop"
          /\ UNCHANGED attempt_a
     ELSE /\ attempt_a' = 0
          /\ gen_pc' = "attempt"
          /\ UNCHANGED region_i
  /\ projections' = 0
  /\ UNCHANGED <<attempts_so_far, success, sampled_states, new_goal, gen_calls, inserted,
                 last_attempt, diagnostics, returned>>
  /\ UNCHANGED <<workspace_goal_regions_, constrs_, refineVars, distVars, queueVars,
                 regionVars, samplerVars, hostVars, flagVars, faultVars>>

(* verbose of lines 434-440 *)
Verbose == states_ = 0 /\ attempt_a >= max_attempts_div2 /\ verbose_display_ < 1

(* the warning test of line 478, in unsigned arithmetic *)
WarnNow(invalid) == ~warned_invalid_samples_ /\ invalid >= (attempts_so_far * 8) \div 10

(* Variant: the budget is tested with <=.                                   *)
AttemptLoopTestInclusive == attempt_a <= max_attempts /\ sampling_

(* Variant: the stop request is not tested.                                 *)
AttemptLoopTestNoStop == attempt_a < max_attempts

(* the loop test of line 432 *)
AttemptLoopTest == attempt_a < max_attempts /\ sampling_

(* the loop test of line 432 fails: line 509 and the increment of line 350 *)
GenAttemptsOver ==
  /\ Running
  /\ gen_pc = "attempt"
  /\ ~AttemptLoopTest
  /\ region_i' = region_i + 1
  /\ gen_pc' = "loop"
  /\ UNCHANGED <<attempt_a, attempts_so_far, success, sampled_states, new_goal, gen_calls,
                 projections, inserted, last_attempt, diagnostics, returned>>
  /\ UNCHANGED <<workspace_goal_regions_, constrs_, refineVars, distVars, queueVars,
                 regionVars, samplerVars, hostVars, flagVars, faultVars>>

(* Variant: a projected state that satisfies the constraints is accepted    *)
(* without the validity check.                                              *)
ConstrainedAttemptNoValidity(project, decide, valid) ==
  IF ~project THEN "project_failed"
  ELSE IF ~decide THEN "unsatisfied"
  ELSE "accepted"

(* the branches of lines 456-486 *)
ConstrainedAttempt(project, decide, valid) ==
  IF ~project THEN "project_failed"
  ELSE IF ~decide THEN "unsatisfied"
  ELSE IF ~valid THEN "invalid"
  ELSE "accepted"

(* the answers project, decide and checkStateValidity can give; a check    *)
(* that is not reached answers nothing (FALSE)                              *)
ConstrainedAnswers ==
  {<<FALSE, FALSE, FALSE>>, <<TRUE, FALSE, FALSE>>, <<TRUE, TRUE, FALSE>>,
   <<TRUE, TRUE, TRUE>>}

(* one attempt with the constraint sampler, lines 442-487 *)
GenAttemptConstrained ==
  /\ Running
  /\ gen_pc = "attempt"
  /\ AttemptLoopTest
  /\ constraint_sampler_ # "null"
  /\ verbose_display_' = IF Verbose THEN verbose_display_ + 1 ELSE verbose_display_
  /\ projections' = projections + 1
  /\ \E ans \in ConstrainedAnswers :
       LET outcome == ConstrainedAttempt(ans[1], ans[2], ans[3])
       IN /\ last_attempt' = AttemptChecks("constrained", ans[2], ans[3])
          /\ work_state_' = IF outcome = "project_failed" THEN work_state_ ELSE SampledConfig
          /\ IF outcome = "unsatisfied"
             THEN /\ invalid_sampled_constraints_' = invalid_sampled_constraints_ + 1
                  /\ IF WarnNow(invalid_sampled_constraints_ + 1)
                     THEN /\ warned_invalid_samples_' = TRUE
                          /\ diagnostics' =
                               Append(diagnostics,
                                      [invalid |-> invalid_sampled_constraints_ + 1,
                                       attempts |-> attempts_so_far])
                     ELSE UNCHANGED <<warned_invalid_samples_, diagnostics>>
             ELSE UNCHANGED <<invalid_sampled_constraints_, warned_invalid_samples_,
                              diagnostics>>
          /\ IF outcome = "accepted"
             THEN (* lines 463-470 *)
                  /\ new_goal' = SampledConfig
                  /\ sampled_states' = Append(sampled_states, SampledConfig)
                  /\ queue_writers' = queue_writers \cup {"generate"}
                  /\ gen_pc' = "insert"
                  /\ UNCHANGED attempt_a
             ELSE /\ attempt_a' = attempt_a + 1
                  /\ UNCHANGED <<gen_pc, sampled_states, new_goal, queue_writers>>
  /\ UNCHANGED <<region_i, attempts_so_far, success, gen_calls, inserted, returned>>
  /\ UNCHANGED <<kinematic_constraint_set_, constraint_sampler_, default_sampler_>>
  /\ UNCHANGED <<workspace_goal_regions_, constrs_, refineVars, distVars,
                 goals_priority_queue_, states_, regionVars, hostVars, flagVars, faultVars>>

(* the branches of lines 491-506 *)
FallbackAttempt(valid, decide) ==
  IF ~valid THEN "invalid"
  ELSE IF ~decide THEN "unsatisfied"
  ELSE "accepted"

(* the answers isValid and decide can give *)
FallbackAnswers == {<<FALSE, FALSE>>, <<TRUE, FALSE>>, <<TRUE, TRUE>>}

(* one attempt with default_sampler_, lines 488-507.  default_sampler_ is   *)
(* a null pointer: calling through it is undefined; the process dies, or    *)
(* the attempt goes on with whatever goal holds.                            *)
GenAttemptFallback ==
  /\ Running
  /\ gen_pc = "attempt"
  /\ AttemptLoopTest
  /\ constraint_sampler_ = "null"
  /\ verbose_display_' = IF Verbose THEN verbose_display_ + 1 ELSE verbose_display_
  /\ faults' = IF default_sampler_ = "null" THEN faults \cup {"null_sampler"} ELSE faults
  /\ \/ (* the process dies *)
        /\ default_sampler_ = "null"
        /\ crashed' = TRUE
        /\ UNCHANGED <<attempt_a, work_state_, gen_pc, new_goal, queue_writers, projections,
                       last_attempt>>
     \/ \E ans \in FallbackAnswers :
          LET outcome == FallbackAttempt(ans[1], ans[2])
          IN /\ projections' = projections + 1
             /\ last_attempt' = AttemptChecks("fallback", ans[2], ans[1])
             /\ work_state_' = IF outcome = "invalid" THEN work_state_ ELSE SampledConfig
             /\ IF outcome = "accepted"
                THEN (* lines 496-502 *)
                     /\ new_goal' = SampledConfig
                     /\ queue_writers' = queue_writers \cup {"generate"}
                     /\ gen_pc' = "insert"
                     /\ UNCHANGED attempt_a
                ELSE /\ attempt_a' = attempt_a + 1
                     /\ UNCHANGED <<gen_pc, new_goal, queue_writers>>
             /\ UNCHANGED crashed
  /\ UNCHANGED <<region_i, attempts_so_far, success, sampled_states, gen_calls, inserted,
                 diagnostics, returned>>
  /\ UNCHANGED <<kinematic_constraint_set_, constraint_sampler_, default_sampler_,
                 invalid_sampled_constraints_, warned_invalid_samples_>>
  /\ UNCHANGED <<workspace_goal_regions_, constrs_, refineVars, distVars,
                 goals_priority_queue_, states_, regionVars, hostVars, flagVars>>

(* goals_priority_queue_.insert returns; success = true; break; line 509   *)
(* and the increment of line 350                                            *)
GenInsert ==
  /\ Running
  /\ gen_pc = "insert"
  /\ goals_priority_queue_' \in
       InsertResults(goals_priority_queue_, new_goal, queue_writers \ {"generate"})
  /\ faults' = faults \cup RaceFaults(queue_writers \ {"generate"})
  /\ queue_writers' = queue_writers \ {"generate"}
  /\ inserted' = Append(inserted, new_goal)
  /\ success' = TRUE
  /\ region_i' = region_i + 1
  /\ gen_pc' = "loop"
  /\ UNCHANGED <<attempt_a, attempts_so_far, sampled_states, new_goal, gen_calls,
                 projections, last_attempt, diagnostics, returned>>
  /\ UNCHANGED <<workspace_goal_regions_, constrs_, refineVars, distVars, states_,
                 regionVars, samplerVars, hostVars, flagVars, crashed>>

(* --- the host thread --- *)

HostFree == Running /\ host_pc \in {"idle", "cleared"}

(* addState, lines 206-212: the insertion starts *)
AddStateBegin ==
  /\ HostFree
  /\ host_calls < MaxHostCalls
  /\ host_calls' = host_calls + 1
  /\ host_arg' = HostConfig
  /\ queue_writers' = queue_writers \cup {"addState"}
  /\ host_pc' = "add_insert"
  /\ UNCHANGED <<workspace_goal_regions_, constrs_, refineVars, distVars,
                 goals_priority_queue_, states_, regionVars, samplerVars, genVars,
                 flagVars, faultVars>>

(* addState, line 212: the insertion returns *)
AddStateInsert ==
  /\ Running
  /\ host_pc = "add_insert"
  /\ goals_priority_queue_' \in
       InsertResults(goals_priority_queue_, host_arg, queue_writers \ {"addState"})
  /\ faults' = faults \cup RaceFaults(queue_writers \ {"addState"})
  /\ queue_writers' = queue_writers \ {"addState"}
  /\ host_pc' = "add_base"
  /\ UNCHANGED <<host_arg, host_calls>>
  /\ UNCHANGED <<workspace_goal_regions_, constrs_, refineVars, distVars, states_,
                 regionVars, samplerVars, genVars, flagVars, crashed>>

(* addState, line 214: the base class registers the state under lock_ *)
AddStateBase ==
  /\ Running
  /\ host_pc = "add_base"
  /\ lock_ = "none"
  /\ states_' = states_ + 1
  /\ host_pc' = "idle"
  /\ UNCHANGED <<host_arg, host_calls>>
  /\ UNCHANGED <<workspace_goal_regions_, constrs_, refineVars, distVars,
                 goals_priority_queue_, queue_writers, regionVars, samplerVars, genVars,
                 flagVars, faultVars>>

(* clear, line 519: lock_ is taken; line 520 starts *)
ClearLock ==
  /\ HostFree
  /\ host_calls < MaxHostCalls
  /\ host_calls' = host_calls + 1
  /\ lock_ = "none"
  /\ lock_' = "host"
  /\ queue_writers' = queue_writers \cup {"clear"}
  /\ host_pc' = "clear_base"
  /\ UNCHANGED host_arg
  /\ UNCHANGED <<workspace_goal_regions_, constrs_, refineVars, distVars,
                 goals_priority_queue_, states_, regionVars, samplerVars, genVars,
                 sampling_, has_solution, samplingAttempts_, faultVars>>

(* clear, line 520: WeightedGoalRegionSampler::clear() empties the queue    *)
(* and the registered states                                                *)
ClearBase ==
  /\ Running
  /\ host_pc = "clear_base"
  /\ goals_priority_queue_' = {}
  /\ states_' = 0
  /\ faults' = faults \cup RaceFaults(queue_writers \ {"clear"})
  /\ queue_writers' = queue_writers \ {"clear"}
  /\ host_pc' = "clear_constrs"
  /\ UNCHANGED <<host_arg, host_calls>>
  /\ UNCHANGED <<workspace_goal_regions_, constrs_, refineVars, distVars, regionVars,
                 samplerVars, genVars, flagVars, crashed>>

(* clear, line 521 *)
ClearConstrs ==
  /\ Running
  /\ host_pc = "clear_constrs"
  /\ constrs_' = <<>>
  /\ host_pc' = "clear_regions"
  /\ UNCHANGED <<host_arg, host_calls>>
  /\ UNCHANGED <<workspace_goal_regions_, refineVars, distVars, queueVars, regionVars,
                 samplerVars, genVars, flagVars, faultVars>>

(* clear, line 522 *)
ClearRegions ==
  /\ Running
  /\ host_pc = "clear_regions"
  /\ workspace_goal_regions_' = <<>>
  /\ host_pc' = "clear_samplers"
  /\ UNCHANGED <<host_arg, host_calls>>
  /\ UNCHANGED <<constrs_, refineVars, distVars, queueVars, regionVars, samplerVars,
                 genVars, flagVars, faultVars>>

(* clear, lines 523-525: the pose samplers and spaces go, lock_ is released *)
ClearSamplers ==
  /\ Running
  /\ host_pc = "clear_samplers"
  /\ se3_samplers_' = 0
  /\ se3_spaces_' = 0
  /\ lock_' = "none"
  /\ host_pc' = "cleared"
  /\ UNCHANGED <<host_arg, host_calls>>
  /\ UNCHANGED <<workspace_goal_regions_, constrs_, refineVars, distVars, queueVars,
                 samplerVars, genVars, sampling_, has_solution, samplingAttempts_,
                 faultVars>>

(* stopSampling() of the base class *)
StopSampling ==
  /\ HostFree
  /\ sampling_
  /\ sampling_' = FALSE
  /\ host_pc' = "idle"
  /\ UNCHANGED <<host_arg, host_calls>>
  /\ UNCHANGED <<workspace_goal_regions_, constrs_, refineVars, distVars, queueVars,
                 regionVars, samplerVars, genVars, lock_, has_solution, samplingAttempts_,
                 faultVars>>

(* the host's search finds its first solution *)
SolutionFound ==
  /\ HostFree
  /\ ~has_solution
  /\ has_solution' = TRUE
  /\ host_pc' = "idle"
  /\ UNCHANGED <<host_arg, host_calls>>
  /\ UNCHANGED <<workspace_goal_regions_, constrs_, refineVars, distVars, queueVars,
                 regionVars, samplerVars, genVars, lock_, sampling_, samplingAttempts_,
                 faultVars>>

(* the host's search drops its solution (the problem is posed again) *)
SolutionCleared ==
  /\ HostFree
  /\ has_solution
  /\ has_solution' = FALSE
  /\ host_pc' = "idle"
  /\ UNCHANGED <<host_arg, host_calls>>
  /\ UNCHANGED <<workspace_goal_regions_, constrs_, refineVars, distVars, queueVars,
                 regionVars, samplerVars, genVars, lock_, sampling_, samplingAttempts_,
                 faultVars>>

(* Regions the engine is constructed with *)
EngineRegions ==
  {Region(BoxA[1], BoxA[2], BoxA[3], TRUE, TRUE, TRUE),
   Region(BoxA[1], BoxA[2], BoxA[3], FALSE, TRUE, TRUE)}

(* the constraint each region is constructed with, lines 82-83 *)
ConstructionConstraint == PoseConstraint(<<1, 1, 1>>, createQuaternionFromRPY(50, 0, 30))

(* the state the constructor leaves, lines 54-135 *)
InitEngine(regions) ==
  /\ \E n \in 1..MaxRegions :
       /\ workspace_goal_regions_ \in [1..n -> regions]
       /\ constrs_ \in [1..n -> {ConstructionConstraint}]
       /\ se3_spaces_ = n
       /\ se3_samplers_ = n
  /\ lock_ = "none"
  /\ sampling_ = TRUE
  /\ has_solution = FALSE
  /\ goals_priority_queue_ = {}
  /\ states_ = 0
  /\ samplingAttempts_ = 0
  /\ queue_writers = {}
  /\ kinematic_constraint_set_ = <<>>
  /\ constraint_sampler_ = "null"
  /\ default_sampler_ = "null"
  /\ work_state_ = 0
  /\ invalid_sampled_constraints_ = 0
  /\ warned_invalid_samples_ = FALSE
  /\ verbose_display_ = 0
  /\ gen_pc = "idle"
  /\ region_i = 0
  /\ attempt_a = 0
  /\ attempts_so_far = 0
  /\ success = FALSE
  /\ sampled_states = <<>>
  /\ new_goal = 0
  /\ gen_calls = 0
  /\ projections = 0
  /\ inserted = <<>>
  /\ last_attempt = NoAttempt
  /\ diagnostics = <<>>
  /\ returned = FALSE
  /\ host_pc = "idle"
  /\ host_arg = 0
  /\ host_calls = 0
  /\ faults = {}
  /\ crashed = FALSE
  /\ RefineIdle

Init ==
  /\ InitEngine(EngineRegions)
  /\ DistIdle

Next ==
  \/ EngineCall
  \/ EngineStop
  \/ EngineCollect
  \/ GenLoop
  \/ GenSample
  \/ GenOrientation
  \/ GenSolutionCheck
  \/ GenAttemptsOver
  \/ GenAttemptConstrained
  \/ GenAttemptFallback
  \/ GenInsert
  \/ AddStateBegin
  \/ AddStateInsert
  \/ AddStateBase
  \/ ClearLock
  \/ ClearBase
  \/ ClearConstrs
  \/ ClearRegions
  \/ ClearSamplers
  \/ StopSampling
  \/ SolutionFound

Spec == Init /\ [][Next]_vars

----------------------------------------------------------------------------
(* The sampler function called in a loop while the host only requests a     *)
(* stop, finds a solution or drops it.                                      *)

GenRegions ==
  {Region(BoxA[1], BoxA[2], BoxA[3], TRUE, TRUE, TRUE),
   Region(BoxA[1], BoxA[2], BoxA[3], FALSE, TRUE, FALSE),
   Region(BoxA[1], BoxA[2], BoxA[3], FALSE, FALSE, FALSE)}

InitGen ==
  /\ InitEngine(GenRegions)
  /\ DistIdle

SamplingThread ==
  \/ EngineCall
  \/ EngineStop
  \/ EngineCollect
  \/ GenLoop
  \/ GenSample
  \/ GenOrientation
  \/ GenSolutionCheck
  \/ GenAttemptsOver
  \/ GenAttemptConstrained
  \/ GenAttemptFallback
  \/ GenInsert

NextGen ==
  \/ SamplingThread
  \/ StopSampling
  \/ SolutionFound
  \/ SolutionCleared

SpecGen == InitGen /\ [][NextGen]_vars

(* the sampling thread is scheduled as long as it can take a step *)
SpecGenFair == SpecGen /\ WF_vars(SamplingThread)

----------------------------------------------------------------------------
(* The host's search asks distanceGoal about a state while the sampling     *)
(* thread runs.                                                             *)

RacePoses ==
  [translation : {<<1, 1, 1>>},
   rotation : {createQuaternionFromRPY(50, 0, 30), createQuaternionFromRPY(0, 0, 0)}]

InitRace ==
  /\ InitEngine(GenRegions)
  /\ abs_overload = "double"
  /\ ee_pose \in RacePoses
  /\ distance_result = NoResult

NextRace ==
  \/ SamplingThread
  \/ StopSampling
  \/ distanceGoal

SpecRace == InitRace /\ [][NextRace]_vars

----------------------------------------------------------------------------
(* Properties of getBetterSolution *)

Last(s) == s[Len(s)]

Component(v) == {w \in Vertices : sameComponent(v, w)}

Improved == improve_calls > 0

(* C1: whenever the terminal configuration of the path equals a roadmap     *)
(* vertex T, the path ends, after the call, at a vertex of lowest score     *)
(* among the vertices of T's component, wherever T is in iteration order.   *)
C1_SplicesLowestInComponent ==
  (Improved /\ Matches(Last(pre_path)) # {}) =>
    LET T == FirstMatch(Last(pre_path))
    IN \E v \in Component(T) :
         /\ stateProperty_[v] = Last(solution_path)
         /\ \A w \in Component(T) : VertexDistance(v) <= VertexDistance(w)

(* C9: with no roadmap vertex equal to the terminal configuration the call  *)
(* leaves the path as it was.                                               *)
C9_NoMatchIsNoOp ==
  (Improved /\ Matches(Last(pre_path)) = {}) => solution_path = pre_path

C9_Witness ==
  /\ Improved
  /\ Matches(Last(pre_path)) = {}
  /\ Len(pre_path) = 2
  /\ roadmap_edges # {}
  /\ solution_path = pre_path

(* C10: the call only appends: the path before the call is a prefix of the  *)
(* path after it, and a spliced internal path contributes exactly its       *)
(* states after the first one, which is the old terminal configuration.     *)
C10_OnlyAppendsTail ==
  Improved =>
    /\ Len(solution_path) >= Len(pre_path)
    /\ SubSeq(solution_path, 1, Len(pre_path)) = pre_path
    /\ roadmap_internal_path = <<>> => solution_path = pre_path
    /\ roadmap_internal_path # <<>> =>
         /\ roadmap_internal_path[1] = Last(pre_path)
         /\ Len(solution_path) = Len(pre_path) + Len(roadmap_internal_path) - 1
         /\ SubSeq(solution_path, Len(pre_path) + 1, Len(solution_path))
              = Tail(roadmap_internal_path)

C10_Witness ==
  /\ Improved
  /\ Len(pre_path) = 2
  /\ Len(roadmap_internal_path) = 3
  /\ solution_path = pre_path \o Tail(roadmap_internal_path)

(* the score of a configuration: the distance of lines 253-266 *)
ConfigScore(q) == MinGrDistance(workspace_goal_regions_, EndEffectorPosition(q), 1)

(* C21: after a call the terminal configuration of the path scores no       *)
(* higher than the terminal configuration before the call, and it is the    *)
(* configuration of a vertex in the component of the old terminal vertex.   *)
C21_NeverWorsensScore ==
  Improved =>
    /\ ConfigScore(Last(solution_path)) <= ConfigScore(Last(pre_path))
    /\ Matches(Last(pre_path)) # {} =>
         \E v \in Component(FirstMatch(Last(pre_path))) :
           stateProperty_[v] = Last(solution_path)

C21_Witness ==
  /\ improve_calls = 1
  /\ roadmap_internal_path # <<>>
  /\ Last(solution_path) # Last(pre_path)
  /\ ConfigScore(Last(solution_path)) < ConfigScore(Last(pre_path))
  /\ Component(FirstMatch(Last(pre_path))) # Vertices

(* C22: on an unchanged roadmap a call that follows another call appends   *)
(* nothing: the path after it is the path it was given.                     *)
C22_SecondCallAppendsNothing ==
  improve_calls >= 2 => solution_path = pre_path

----------------------------------------------------------------------------
(* Properties of distanceGoal *)

Answered == distance_result # NoResult

RegionIndexes == 1..Len(workspace_goal_regions_)

(* the position box in all three coordinates *)
InBox(r, t) ==
  /\ InBoxXY(r, t)
  /\ t[3] >= r.z.min
  /\ t[3] <= r.z.max

(* a fixed axis of region i on which the pose is more than the tolerance    *)
(* away from the region's constraint angle                                  *)
FailsFixedAxis(i) ==
  LET r == workspace_goal_regions_[i]
      constr == getRPY(constrs_[i].orientation)
      pose_rpy == getRPY(ee_pose.rotation)
  IN \/ ~r.roll.free_value /\ Abs(constr[1] - pose_rpy[1]) > OrientationTolerance
     \/ ~r.pitch.free_value /\ Abs(constr[2] - pose_rpy[2]) > OrientationTolerance
     \/ ~r.yaw.free_value /\ Abs(constr[3] - pose_rpy[3]) > OrientationTolerance

(* C2: a pose that, for every region, is outside the position box (in x, y  *)
(* or z) or fails a fixed-axis check by more than the tolerance, gets the   *)
(* fallback heuristic, which is strictly positive.                          *)
C2_OutsideGetsPositiveFallback ==
  (Answered /\ \A i \in RegionIndexes :
                 ~InBox(workspace_goal_regions_[i], ee_pose.translation) \/ FailsFixedAxis(i))
    => (distance_result.via = "fallback" /\ distance_result.value > 0)

(* C3: a pose inside the position box of a region with three free axes      *)
(* gets 0, whatever the other regions and their constraints are.            *)
C3_InsideFreeRegionIsZero ==
  (Answered /\ \E i \in RegionIndexes :
                 /\ InBox(workspace_goal_regions_[i], ee_pose.translation)
                 /\ AllFree(workspace_goal_regions_[i]))
    => distance_result.value = 0

C3_Witness ==
  /\ Answered
  /\ Len(workspace_goal_regions_) = 2
  /\ InBox(workspace_goal_regions_[1], ee_pose.translation)
  /\ FailsFixedAxis(1)
  /\ abs_overload = "double"
  /\ InBox(workspace_goal_regions_[2], ee_pose.translation)
  /\ AllFree(workspace_goal_regions_[2])
  /\ distance_result = [value |-> 0, region |-> 2, via |-> "inside"]

(* C4: a region with a fixed axis on which the pose differs from the        *)
(* constraint angle by more than the tolerance never makes the result 0.    *)
C4_FailedFixedAxisNeverInside ==
  Answered => \A i \in RegionIndexes : FailsFixedAxis(i) => distance_result.region # i

----------------------------------------------------------------------------
(* Properties of the sampling engine *)

(* C5: clear() and the sampling loop exclude each other, so no step of a    *)
(* call of the sampler function indexes a region, constraint or pose        *)
(* sampler that clear() has dropped.                                        *)
C5_NoDroppedRegionIndexed == "out_of_range" \notin faults

(* C6: every change of the queue is made under the one lock, so no two of   *)
(* the insertions of the sampler, the insertions of addState and clear()    *)
(* are ever in progress together (in a run free of undefined behaviour).    *)
C6_QueueChangesExclusive == faults = {} => Cardinality(queue_writers) <= 1

(* C7: with no constraint sampler selected, the attempt draws from a        *)
(* default sampler that has been initialised and the call ends normally.    *)
C7_FallbackSamplerAvailable ==
  /\ "null_sampler" \notin faults
  /\ (gen_pc = "insert" /\ constraint_sampler_ = "null") => default_sampler_ # "null"

(* C8: when clear() has returned (no call of the sampler function being in *)
(* progress) the queue holds no candidate, no region, constraint or pose    *)
(* sampler remains, and the counter of invalid samples, the warning flag    *)
(* and the verbose flag are as the constructor left them.                   *)
C8_ClearDiscardsSamplerState ==
  (host_pc = "cleared" /\ gen_pc \in {"idle", "stopped"} /\ faults = {}) =>
    /\ goals_priority_queue_ = {}
    /\ workspace_goal_regions_ = <<>>
    /\ constrs_ = <<>>
    /\ se3_samplers_ = 0
    /\ se3_spaces_ = 0
    /\ invalid_sampled_constraints_ = 0
    /\ ~warned_invalid_samples_
    /\ verbose_display_ = 0

----------------------------------------------------------------------------
(* Properties of sampleUsingConstraintSampler *)

Range(seq) == {seq[k] : k \in 1..Len(seq)}

(* the sampling thread takes a step of the running call *)
ThreadSteps == gen_pc' # gen_pc \/ projections' # projections

(* C11: in every call and for every region at most max_attempts attempts    *)
(* (projections or draws of the fallback sampler) are made, and the attempt *)
(* loop of a region ends with the first accepted candidate: the thread's    *)
(* next step after an acceptance moves to the next region with no further   *)
(* attempt, so a call accepts at most one candidate per region.             *)
C11_AttemptsWithinBudget ==
  /\ [](projections <= max_attempts /\ Len(inserted) <= region_i)
  /\ [][(gen_pc = "insert" /\ ThreadSteps) =>
          (gen_pc' = "loop" /\ region_i' = region_i + 1 /\ projections' = projections)]_vars

C11_Witness ==
  /\ gen_pc = "loop"
  /\ projections = max_attempts
  /\ Len(inserted) = 1
  /\ region_i = 2

(* an attempt with the constraint sampler that is rejected *)
RejectedConstrained ==
  /\ gen_pc = "attempt"
  /\ constraint_sampler_ # "null"
  /\ projections' = projections + 1
  /\ gen_pc' = "attempt"

(* C12: the call returns true exactly when it handed at least one accepted  *)
(* candidate to the queue; a call whose attempts are all rejected returns   *)
(* false, and a rejection raises no error.                                  *)
C12_ReturnsTrueIffInserted ==
  /\ [](gen_pc = "return" => (returned <=> Len(inserted) > 0))
  /\ [][RejectedConstrained => (faults' = faults /\ ~crashed')]_vars

C12_Witness ==
  /\ gen_pc = "return"
  /\ Len(workspace_goal_regions_) = 2
  /\ Len(inserted) = 1
  /\ returned
  /\ faults = {}

(* C13: once a stop is requested no attempt is started for any region, and  *)
(* the running call and the sampling loop come to an end: the thread        *)
(* reaches Stopped.                                                         *)
C13_CooperativeCancellation ==
  /\ [][~sampling_ => projections' <= projections]_vars
  /\ (~sampling_ ~> gen_pc = "stopped")

C13_Witness ==
  /\ ~sampling_
  /\ gen_pc = "loop"
  /\ region_i = 2
  /\ Len(workspace_goal_regions_) = 2
  /\ projections = 1
  /\ inserted = <<>>

C15_InsertedPassedChecks ==
  /\ gen_pc = "insert" =>
       (last_attempt.decide /\ last_attempt.valid /\ new_goal = work_state_)
  /\ \A g \in goals_priority_queue_ : g.weight_ = 1

C15_Witness ==
  /\ gen_pc = "loop"
  /\ last_attempt = AttemptChecks("constrained", TRUE, TRUE)
  /\ WeightedGoal(new_goal) \in goals_priority_queue_
  /\ faults = {}

(* C16: when a call returns, the candidates on its output list are the      *)
(* candidates it handed to the queue, whichever sampler produced them.      *)
C16_EmittedEqualsInserted ==
  gen_pc = "return" => Range(sampled_states) = Range(inserted)

(* the angle of constraint c on axis k (1 roll, 2 pitch, 3 yaw): the angle  *)
(* its orientation was composed with                                        *)
AxisAngle(c, k) == <<c.orientation.r, c.orientation.p, c.orientation.y>>[k]

FixedAxes(r) ==
  {k \in 1..3 : \/ k = 1 /\ ~r.roll.free_value
                \/ k = 2 /\ ~r.pitch.free_value
                \/ k = 3 /\ ~r.yaw.free_value}

(* C19: whatever calls have run, the constraint of every region has, on     *)
(* each fixed axis, the angle it was constructed with, and the orientation  *)
(* of a region with three fixed axes is the one it was constructed with.    *)
C19_FixedAxesRetained ==
  \A k \in 1..Len(constrs_) :
    /\ \A ax \in FixedAxes(workspace_goal_regions_[k]) :
         AxisAngle(constrs_[k], ax) = AxisAngle(ConstructionConstraint, ax)
    /\ FixedAxes(workspace_goal_regions_[k]) = {1, 2, 3} =>
         constrs_[k].orientation = ConstructionConstraint.orientation

(* C20: the warning is raised at most once; when it is raised the count of  *)
(* unsatisfied samples is more than 80% of the attempts made so far; the    *)
(* attempt that raises it is a rejected attempt like any other: the loop    *)
(* goes on and the result of the call is not touched.                       *)
C20_DiagnosticOnceAbove80Percent ==
  /\ [](Len(diagnostics) <= 1)
  /\ [](\A k \in 1..Len(diagnostics) :
          diagnostics[k].invalid * 10 > diagnostics[k].attempts * 8)
  /\ [][diagnostics' # diagnostics =>
          (/\ gen_pc' = "attempt"
           /\ attempt_a' = attempt_a + 1
           /\ success' = success
           /\ ~crashed')]_vars

(* C17: distanceGoal never reads the constraint of a region while the       *)
(* sampling thread is rewriting it.                                         *)
C17_ConstraintNotReadWhileWritten == "constraint_race" \notin faults

----------------------------------------------------------------------------
(* Properties of getBetterSolution beside roadmap growth *)

(* the vertices of the copy that vertex v reaches over edges of the copy *)
RECURSIVE SnapshotReach(_, _)
SnapshotReach(S, n) ==
  IF n = 0 THEN S
  ELSE SnapshotReach(S \cup {w \in 1..graph : \E v \in S : {v, w} \in roadmap_edges}, n - 1)

SnapshotComponent(v) == SnapshotReach({v}, graph)

(* C18: a call that ran beside roadmap growth appended only configurations  *)
(* of vertices the roadmap had when the call began, and what it spliced     *)
(* ends at a vertex that the roadmap of that moment connected to the        *)
(* terminal vertex.                                                         *)
C18_RefinesOnSnapshot ==
  (refine_pc = "idle" /\ graph > 0 /\ roadmap_internal_path # <<>>) =>
    /\ \A k \in 2..Len(roadmap_internal_path) :
         \E v \in 1..graph : stateProperty_[v] = roadmap_internal_path[k]
    /\ \E w \in SnapshotComponent(start_vertex) :
         stateProperty_[w] = Last(roadmap_internal_path)

====
